---- MODULE Spec2Model ----
(***************************************************************************)
(* OpenVault: the credential resolver (Vault) and the registry accessors.  *)
(*                                                                         *)
(* Text (keys, values, file contents) is a sequence of one-character       *)
(* strings, so that trimming, splitting and quote stripping are computed   *)
(* character by character as the JavaScript string methods compute them.   *)
(* An optional JavaScript value (T | undefined) is a sequence of length 0  *)
(* (undefined) or 1 (the value).                                           *)
(***************************************************************************)
EXTENDS Integers, Sequences, FiniteSets, TLC

(***************************************************************************)
(* JavaScript string primitives                                            *)
(***************************************************************************)

None == <<>>

Some(v) == <<v>>

Min(a, b) == IF a < b THEN a ELSE b

Max(a, b) == IF a > b THEN a ELSE b

\* Characters String.prototype.trim removes (those that can occur in a line).
WhiteSpace == {" ", "\t", "\r"}

\* s.slice(start, end), zero-based, negative indices counted from the end.
Slice(s, start, end) ==
    LET n == Len(s)
        from == IF start < 0 THEN Max(n + start, 0) ELSE Min(start, n)
        to == IF end < 0 THEN Max(n + end, 0) ELSE Min(end, n)
    IN SubSeq(s, from + 1, to)

\* s.slice(start)
SliceFrom(s, start) == Slice(s, start, Len(s))

RECURSIVE TrimStart(_)
TrimStart(s) ==
    IF s # <<>> /\ Head(s) \in WhiteSpace THEN TrimStart(Tail(s)) ELSE s

RECURSIVE TrimEnd(_)
TrimEnd(s) ==
    IF s # <<>> /\ s[Len(s)] \in WhiteSpace
    THEN TrimEnd(SubSeq(s, 1, Len(s) - 1))
    ELSE s

\* s.trim()
Trim(s) == TrimEnd(TrimStart(s))

\* s.indexOf(c): zero-based index of the first occurrence, -1 when absent.
IndexOf(s, c) ==
    IF \E i \in 1..Len(s) : s[i] = c
    THEN (CHOOSE i \in 1..Len(s) : s[i] = c /\ \A j \in 1..(i - 1) : s[j] # c) - 1
    ELSE -1

\* s.startsWith(c) for a one-character c
StartsWithChar(s, c) == Len(s) >= 1 /\ s[1] = c

\* s.endsWith(c) for a one-character c
EndsWithChar(s, c) == Len(s) >= 1 /\ s[Len(s)] = c

\* s.startsWith(p)
StartsWith(s, p) == Len(s) >= Len(p) /\ SubSeq(s, 1, Len(p)) = p

\* content.split('\n')
RECURSIVE Split(_)
Split(content) ==
    LET i == IndexOf(content, "\n")
    IN IF i = -1
       THEN <<content>>
       ELSE <<Slice(content, 0, i)>> \o Split(SliceFrom(content, i + 1))

(***************************************************************************)
(* Map<string, string> as a function whose domain is the set of keys       *)
(***************************************************************************)

EmptyMap == [k \in {} |-> <<>>]

MapSet(m, key, value) ==
    [k \in DOMAIN m \cup {key} |-> IF k = key THEN value ELSE m[k]]

MapHas(m, key) == key \in DOMAIN m

\* m.get(key): string | undefined
MapGet(m, key) == IF key \in DOMAIN m THEN Some(m[key]) ELSE None

\* !value for a value of type string | undefined
Falsy(opt) == opt = None \/ opt[1] = <<>>

(***************************************************************************)
(* Vault.loadEnv: the credential file parser                               *)
(***************************************************************************)

\* The quote test of loadEnv.
QuoteWrapped(value) ==
    \/ StartsWithChar(value, "\"") /\ EndsWithChar(value, "\"")
    \/ StartsWithChar(value, "'") /\ EndsWithChar(value, "'")

\* "Remove quotes if present"
StripQuotes(value) ==
    IF QuoteWrapped(value) THEN Slice(value, 1, -1) ELSE value

\* One iteration of the loop over the lines: the map after the line.
ParseLine(creds, line) ==
    LET trimmed == Trim(line)
        eqIndex == IndexOf(trimmed, "=")
        key == Trim(Slice(trimmed, 0, eqIndex))
        value == Trim(SliceFrom(trimmed, eqIndex + 1))
    IN IF trimmed = <<>> \/ StartsWithChar(trimmed, "#")
       THEN creds
       ELSE IF eqIndex = -1
            THEN creds
            ELSE MapSet(creds, key, StripQuotes(value))

RECURSIVE ParseLines(_, _)
ParseLines(creds, lines) ==
    IF lines = <<>>
    THEN creds
    ELSE ParseLines(ParseLine(creds, Head(lines)), Tail(lines))

\* loadEnv on a file of the file system: [threw, credentials].
\* fs.existsSync is false for a missing file; fs.readFileSync throws on a
\* file that exists and cannot be read.
LoadEnv(file) ==
    IF ~file.exists
    THEN [threw |-> FALSE, credentials |-> EmptyMap]
    ELSE IF ~file.readable
         THEN [threw |-> TRUE, credentials |-> EmptyMap]
         ELSE [threw |-> FALSE,
               credentials |-> ParseLines(EmptyMap, Split(file.content))]

(***************************************************************************)
(* The registry: services.json is a static table; this is a table of the   *)
(* same schema (types.ts: ServiceRegistry, Service, Credential), its        *)
(* entries in Object.entries order.                                        *)
(***************************************************************************)

PORKBUN_API_KEY == <<"P">>

PORKBUN_SECRET_KEY == <<"S">>

OPENAI_ORG_ID == <<"O">>

\* A key no service of the registry defines.
NOT_A_REAL_KEY == <<"N">>

\* A regular expression is modelled by the prefix it anchors: pattern p
\* stands for the expression ^p.
registry ==
    [services |-> <<
        [id |-> "porkbun",
         credentials |-> <<
            [key |-> PORKBUN_API_KEY, required |-> TRUE,
             pattern |-> Some(<<"p">>),
             setupUrl |-> Some("https://porkbun.com/account/api"),
             setupSteps |-> Some(<<"Enable API access", "Create an API key">>)],
            [key |-> PORKBUN_SECRET_KEY, required |-> TRUE,
             pattern |-> None,
             setupUrl |-> None,
             setupSteps |-> None] >>],
        [id |-> "openai",
         credentials |-> <<
            [key |-> OPENAI_ORG_ID, required |-> FALSE,
             pattern |-> Some(<<"o">>),
             setupUrl |-> Some("https://platform.openai.com/account/organization"),
             setupSteps |-> Some(<<>>)] >>] >>]

\* new RegExp(pattern).test(value)
RegExpTest(pattern, value) == StartsWith(value, pattern)

\* The element of seq at the least of the indices hits, as an optional value.
FindFirst(seq, hits) ==
    IF hits # {}
    THEN Some(seq[CHOOSE i \in hits : \A j \in hits : i <= j])
    ELSE None

\* registry.services[serviceId]
getService(serviceId) ==
    FindFirst(registry.services,
              {i \in 1..Len(registry.services) : registry.services[i].id = serviceId})

\* registry.services[serviceId]?.credentials[credentialKey]
getCredential(serviceId, credentialKey) ==
    LET service == getService(serviceId)
        defs == service[1].credentials
    IN IF service = None
       THEN None
       ELSE FindFirst(defs, {i \in 1..Len(defs) : defs[i].key = credentialKey})

\* The required keys of the service, in the order of its credentials.
getRequiredCredentials(serviceId) ==
    LET service == getService(serviceId)
        Required(c) == c.required
        required == SelectSeq(service[1].credentials, Required)
    IN IF service = None
       THEN <<>>
       ELSE [i \in 1..Len(required) |-> required[i].key]

validateCredential(serviceId, credentialKey, value) ==
    LET credential == getCredential(serviceId, credentialKey)
    IN IF credential = None
       THEN [valid |-> FALSE,
             error |-> Some([text |-> "Unknown credential", key |-> credentialKey,
                             detail |-> Some(serviceId)])]
       ELSE IF credential[1].pattern = None
            THEN [valid |-> TRUE, error |-> None]
            ELSE IF ~RegExpTest(credential[1].pattern[1], value)
                 THEN [valid |-> FALSE,
                       error |-> Some([text |-> "Invalid format", key |-> credentialKey,
                                       detail |-> credential[1].pattern])]
                 ELSE [valid |-> TRUE, error |-> None]

getSetupInstructions(serviceId, credentialKey) ==
    LET credential == getCredential(serviceId, credentialKey)
    IN [url |-> IF credential = None THEN None ELSE credential[1].setupUrl,
        steps |-> IF credential = None THEN None ELSE credential[1].setupSteps]

\* The id of the first service, in registry order, whose credentials have the key.
findServiceByCredential(credentialKey) ==
    LET Owns(s) == \E i \in 1..Len(s.credentials) : s.credentials[i].key = credentialKey
        service == FindFirst(registry.services,
                             {i \in 1..Len(registry.services) : Owns(registry.services[i])})
    IN IF service = None THEN None ELSE Some(service[1].id)

(***************************************************************************)
(* The Vault: a resolver is self = [credentials, options]; the process     *)
(* environment is the variable processEnv.                                 *)
(***************************************************************************)

VARIABLES
    pc,           \* "start" before new Vault(...), then "ready", or "failed" when the constructor threw
    credentials,  \* Vault.credentials
    options,      \* Vault.options (throwOnMissing, validate)
    envFile,      \* the file at options.envPath: [exists, readable, content]
    processEnv,   \* process.env
    result,       \* the last call and its outcome
    cwd,          \* process.cwd(), a path: the directory names from the root down
    envDirs,      \* the directories of the file system that contain a file named .env
    dir,          \* findEnvFile's dir
    lpc,          \* findEnvFile: "idle" before the call, "loop" at the head of the loop, "done" on return
    located       \* the path findEnvFile returned

\* The state of findEnvFile and of the file system it walks.
locator == <<cwd, envDirs, dir, lpc, located>>

vars == <<pc, credentials, options, envFile, processEnv, result, locator>>

this == [credentials |-> credentials, options |-> options]

\* A call that returned v, having written the warnings to console.warn.
Return(v, warnings) == [kind |-> "return", value |-> v, warnings |-> warnings]

\* A call that threw new Error(message), having written the warnings before.
Throw(error, message, warnings) ==
    [kind |-> "throw", error |-> error, message |-> message, warnings |-> warnings]

\* The steps numbered by their zero-based index.
NumberedStepsFromZero(steps) == [i \in 1..Len(steps) |-> <<i - 1, steps[i]>>]

\* steps.map((s, i) => `  ${i + 1}. ${s}`)
\* (the i-th element has the zero-based index i - 1)
NumberedSteps(steps) == [i \in 1..Len(steps) |-> <<(i - 1) + 1, steps[i]>>]

\* The message of the error get throws: "Credential not found: <key>", then
\* "Get it here: <url>" when there is a url, then "Setup steps:" and the
\* numbered steps when there are steps.
NotFoundMessage(key) ==
    LET serviceId == findServiceByCredential(key)
        instructions == getSetupInstructions(serviceId[1], key)
        \* instructions.url is truthy: defined and not the empty string
        hasUrl == instructions.url # None /\ instructions.url[1] # ""
    IN IF serviceId # None
       THEN [key |-> key,
             url |-> IF hasUrl THEN instructions.url ELSE None,
             steps |-> IF instructions.steps # None
                       THEN Some(NumberedSteps(instructions.steps[1]))
                       ELSE None]
       ELSE [key |-> key, url |-> None, steps |-> None]

\* "First try our loaded credentials", then "Fall back to process.env".
Lookup(self, key) ==
    LET value == MapGet(self.credentials, key)
    IN IF Falsy(value) THEN MapGet(processEnv, key) ELSE value

\* "Validate format if enabled": the warnings get writes for the value.
ValidationWarnings(self, key, value) ==
    LET serviceId == findServiceByCredential(key)
        checked == validateCredential(serviceId[1], key, value[1])
    IN IF ~Falsy(value) /\ self.options.validate
       THEN IF serviceId # None
            THEN IF ~checked.valid THEN <<checked.error[1]>> ELSE <<>>
            ELSE <<>>
       ELSE <<>>

\* get that raises only for a key some service owns.
getLenientUnregistered(self, key) ==
    LET value == Lookup(self, key)
    IN IF Falsy(value) /\ self.options.throwOnMissing
            /\ findServiceByCredential(key) # None
       THEN Throw("CredentialNotFound", NotFoundMessage(key), <<>>)
       ELSE Return(IF value = None THEN <<>> ELSE value[1],
                   ValidationWarnings(self, key, value))

\* get that raises the validator's error instead of writing a warning.
getRejectsInvalid(self, key) ==
    LET value == Lookup(self, key)
        warnings == ValidationWarnings(self, key, value)
    IN IF Falsy(value) /\ self.options.throwOnMissing
       THEN Throw("CredentialNotFound", NotFoundMessage(key), <<>>)
       ELSE IF warnings # <<>>
            THEN Throw("InvalidFormat", warnings[1], <<>>)
            ELSE Return(IF value = None THEN <<>> ELSE value[1], warnings)

get(self, key) ==
    LET value == Lookup(self, key)
    IN IF Falsy(value) /\ self.options.throwOnMissing
       THEN Throw("CredentialNotFound", NotFoundMessage(key), <<>>)
       ELSE Return(IF value = None THEN <<>> ELSE value[1],
                   ValidationWarnings(self, key, value))

\* getFor that rejects an undefined pair only when the key has no value.
getForCheckedLate(self, serviceId, key) ==
    IF getCredential(serviceId, key) = None /\ Falsy(Lookup(self, key))
    THEN Throw("UnknownCredential", [key |-> key, serviceId |-> serviceId], <<>>)
    ELSE get(self, key)

getFor(self, serviceId, key) ==
    IF getCredential(serviceId, key) = None
    THEN Throw("UnknownCredential", [key |-> key, serviceId |-> serviceId], <<>>)
    ELSE get(self, key)

\* has that counts a key as present only when it has a non-empty value.
hasValue(self, key) == ~Falsy(Lookup(self, key))

has(self, key) == MapHas(self.credentials, key) \/ key \in DOMAIN processEnv

\* The loop of getServiceCredentials leaving out the keys for which get raises.
RECURSIVE GetEachSkipping(_, _, _, _)
GetEachSkipping(self, keys, record, warnings) ==
    IF keys = <<>>
    THEN Return(record, warnings)
    ELSE LET got == get(self, Head(keys))
         IN IF got.kind = "throw"
            THEN GetEachSkipping(self, Tail(keys), record, warnings)
            ELSE GetEachSkipping(self, Tail(keys), MapSet(record, Head(keys), got.value),
                                 warnings \o got.warnings)

\* The loop of getServiceCredentials from the keys still to get, with the
\* record built and the warnings written so far.
RECURSIVE GetEach(_, _, _, _)
GetEach(self, keys, record, warnings) ==
    IF keys = <<>>
    THEN Return(record, warnings)
    ELSE LET got == get(self, Head(keys))
         IN IF got.kind = "throw"
            THEN Throw(got.error, got.message, warnings)
            ELSE GetEach(self, Tail(keys), MapSet(record, Head(keys), got.value),
                         warnings \o got.warnings)

getServiceCredentials(self, serviceId) ==
    GetEach(self, getRequiredCredentials(serviceId), EmptyMap, <<>>)

validateService(self, serviceId) ==
    LET Missing(key) == ~has(self, key)
        missing == SelectSeq(getRequiredCredentials(serviceId), Missing)
    IN Return([valid |-> Len(missing) = 0, missing |-> missing], <<>>)

\* set that starts a new map holding only the key.
setDroppingOthers(self, key, value) == MapSet(EmptyMap, key, value)

\* The map after set(key, value).
set(self, key, value) == MapSet(self.credentials, key, value)

(***************************************************************************)
(* The inputs of the model                                                 *)
(***************************************************************************)

Keys == {PORKBUN_API_KEY, PORKBUN_SECRET_KEY, OPENAI_ORG_ID, NOT_A_REAL_KEY}

\* The empty string, a value that matches ^p, and one that matches no pattern.
Values == {<<>>, <<"p">>, <<"z">>}

\* The services of the registry and an id it does not have.
ServiceIds == {"porkbun", "openai", "sendgrid"}

\* The three states of an environment variable: unset, set to the empty
\* string, set to a value.
EnvStates == <<None, Some(<<>>), Some(<<"z">>)>>

\* The environment in which the variables are in the states a, b, a + b and
\* a + 2b (modulo 3).
Environment(a, b) ==
    LET state == [k \in Keys |->
                    IF k = PORKBUN_API_KEY THEN EnvStates[a + 1]
                    ELSE IF k = PORKBUN_SECRET_KEY THEN EnvStates[b + 1]
                    ELSE IF k = OPENAI_ORG_ID THEN EnvStates[((a + b) % 3) + 1]
                    ELSE EnvStates[((a + 2 * b) % 3) + 1]]
    IN [k \in {x \in Keys : state[x] # None} |-> state[k][1]]

\* Process environments over Keys: nine, in which every two variables take
\* every combination of two states.
Environments == {Environment(a, b) : a \in 0..2, b \in 0..2}

\* # c
\* (blank)
\* P="p"
\* S='z'
\*   O = z
\* O=p
\* junk
CommentedFile ==
    << "#", " ", "c", "\n",
       "\n",
       "P", "=", "\"", "p", "\"", "\n",
       "S", "=", "'", "z", "'", "\n",
       " ", " ", "O", " ", "=", " ", "z", "\r", "\n",
       "O", "=", "p", "\n",
       "j", "u", "n", "k" >>

\* P="
\* N="z'
\* S=
LoneQuoteFile ==
    << "P", "=", "\"", "\n",
       "N", "=", "\"", "z", "'", "\n",
       "S", "=" >>

FileContents == {CommentedFile, LoneQuoteFile}

\* The states of the file at the resolved path: missing, present and
\* unreadable, present and readable.
Files ==
    {[exists |-> FALSE, readable |-> FALSE, content |-> <<>>]}
    \cup {[exists |-> TRUE, readable |-> FALSE, content |-> CommentedFile]}
    \cup {[exists |-> TRUE, readable |-> TRUE, content |-> c] : c \in FileContents}

\* An optional boolean of VaultOptions.
OptionalFlags == {None, Some(TRUE), Some(FALSE)}

\* options.x ?? true
OrTrue(flag) == IF flag = None THEN TRUE ELSE flag[1]

NoCall == [op |-> "none"]

\* The file system root; path.dirname of it is itself.
Root == <<>>

\* findEnvFile not called.
LocatorIdle ==
    /\ cwd = Root
    /\ envDirs = {}
    /\ dir = Root
    /\ lpc = "idle"
    /\ located = None

(***************************************************************************)
(* The state machine                                                       *)
(***************************************************************************)

Init ==
    /\ pc = "start"
    /\ credentials = EmptyMap
    /\ options = [throwOnMissing |-> TRUE, validate |-> TRUE]
    /\ envFile \in Files
    /\ processEnv \in Environments
    /\ result = NoCall
    /\ LocatorIdle

\* new Vault({envPath, throwOnMissing, validate}): the options, then loadEnv.
Construct ==
    /\ pc = "start"
    /\ \E throwOnMissing \in OptionalFlags, validate \in OptionalFlags :
        LET loaded == LoadEnv(envFile)
        IN /\ options' = [throwOnMissing |-> OrTrue(throwOnMissing),
                          validate |-> OrTrue(validate)]
           /\ IF loaded.threw
              THEN /\ pc' = "failed"
                   /\ credentials' = credentials
                   /\ result' = [op |-> "new", outcome |-> Throw("ReadError", envFile, <<>>)]
              ELSE /\ pc' = "ready"
                   /\ credentials' = loaded.credentials
                   /\ result' = [op |-> "new", outcome |-> Return(loaded.credentials, <<>>)]
    /\ UNCHANGED <<envFile, processEnv, locator>>

Get ==
    /\ pc = "ready"
    /\ \E key \in Keys :
        result' = [op |-> "get", key |-> key, outcome |-> get(this, key)]
    /\ UNCHANGED <<pc, credentials, options, envFile, processEnv, locator>>

GetFor ==
    /\ pc = "ready"
    /\ \E serviceId \in ServiceIds, key \in Keys :
        result' = [op |-> "getFor", serviceId |-> serviceId, key |-> key,
                   outcome |-> getFor(this, serviceId, key)]
    /\ UNCHANGED <<pc, credentials, options, envFile, processEnv, locator>>

Has ==
    /\ pc = "ready"
    /\ \E key \in Keys :
        result' = [op |-> "has", key |-> key, outcome |-> Return(has(this, key), <<>>)]
    /\ UNCHANGED <<pc, credentials, options, envFile, processEnv, locator>>

GetServiceCredentials ==
    /\ pc = "ready"
    /\ \E serviceId \in ServiceIds :
        result' = [op |-> "getServiceCredentials", serviceId |-> serviceId,
                   outcome |-> getServiceCredentials(this, serviceId)]
    /\ UNCHANGED <<pc, credentials, options, envFile, processEnv, locator>>

ValidateService ==
    /\ pc = "ready"
    /\ \E serviceId \in ServiceIds :
        result' = [op |-> "validateService", serviceId |-> serviceId,
                   outcome |-> validateService(this, serviceId)]
    /\ UNCHANGED <<pc, credentials, options, envFile, processEnv, locator>>

Set ==
    /\ pc = "ready"
    /\ \E key \in Keys, value \in Values :
        /\ credentials' = set(this, key, value)
        /\ result' = [op |-> "set", key |-> key, value |-> value]
    /\ UNCHANGED <<pc, options, envFile, processEnv, locator>>

Next ==
    \/ Construct
    \/ Get
    \/ GetFor
    \/ Has
    \/ GetServiceCredentials
    \/ ValidateService
    \/ Set

Spec == Init /\ [][Next]_vars

(***************************************************************************)
(* The parser alone: construction over every one-line credential file of   *)
(* up to MaxLineLen characters, with an empty process environment.         *)
(***************************************************************************)

MaxLineLen == 6

ParseAlphabet == {"\"", "'", "=", " ", "a"}

ParseLines1 == UNION {[1..n -> ParseAlphabet] : n \in 0..MaxLineLen}

ParseInit ==
    /\ pc = "start"
    /\ credentials = EmptyMap
    /\ options = [throwOnMissing |-> TRUE, validate |-> TRUE]
    /\ envFile \in {[exists |-> TRUE, readable |-> TRUE, content |-> line] :
                        line \in ParseLines1}
    /\ processEnv = EmptyMap
    /\ result = NoCall
    /\ LocatorIdle

ParseNext == Construct

SpecParse == ParseInit /\ [][ParseNext]_vars

(***************************************************************************)
(* The resolver in a changing world: after construction the credential     *)
(* file may be rewritten, made unreadable or deleted, and the process      *)
(* environment may change, between any two calls.                          *)
(***************************************************************************)

\* The environments the process moves between.
FrameEnvironments == {Environment(0, 0), Environment(1, 2), Environment(2, 1)}

FrameInit ==
    /\ Init
    /\ processEnv \in FrameEnvironments

\* The file at options.envPath changes on disk.
ChangeFile ==
    /\ pc = "ready"
    /\ envFile' \in Files \ {envFile}
    /\ UNCHANGED <<pc, credentials, options, processEnv, result, locator>>

\* process.env changes.
ChangeEnv ==
    /\ pc = "ready"
    /\ processEnv' \in FrameEnvironments \ {processEnv}
    /\ UNCHANGED <<pc, credentials, options, envFile, result, locator>>

FrameNext ==
    \/ Next
    \/ ChangeFile
    \/ ChangeEnv

SpecFrame == FrameInit /\ [][FrameNext]_vars

(***************************************************************************)
(* Vault.findEnvFile: the walk from the working directory to the root,     *)
(* one action per iteration of its loop, over every working directory of   *)
(* depth up to MaxDepth and every placement of up to MaxEnvFiles .env      *)
(* files in the directory tree.                                            *)
(***************************************************************************)

MaxDepth == 3

MaxEnvFiles == 2

DirNames == {"a", "b"}

\* The directories of the tree.
Dirs == UNION {[1..n -> DirNames] : n \in 0..MaxDepth}

\* path.dirname(d)
Dirname(d) == IF d = Root THEN Root ELSE SubSeq(d, 1, Len(d) - 1)

\* path.join(d, name)
Join(d, name) == Append(d, name)

\* fs.existsSync(path.join(d, '.env'))
EnvFileExistsIn(d) == d \in envDirs

\* The sets of up to MaxEnvFiles directories.
EnvFilePlacements ==
    UNION {{{f[i] : i \in 1..n} : f \in [1..n -> Dirs]} : n \in 0..MaxEnvFiles}

LocateInit ==
    /\ pc = "start"
    /\ credentials = EmptyMap
    /\ options = [throwOnMissing |-> TRUE, validate |-> TRUE]
    /\ envFile = [exists |-> FALSE, readable |-> FALSE, content |-> <<>>]
    /\ processEnv = EmptyMap
    /\ result = NoCall
    /\ cwd \in Dirs
    /\ envDirs \in EnvFilePlacements
    /\ dir = Root
    /\ lpc = "idle"
    /\ located = None

\* let dir = process.cwd()
FindEnvFileEnter ==
    /\ lpc = "idle"
    /\ dir' = cwd
    /\ lpc' = "loop"
    /\ UNCHANGED <<pc, credentials, options, envFile, processEnv, result,
                   cwd, envDirs, located>>

\* An iteration that, at the root, returns the .env path of the directory
\* it stands in instead of that of the working directory.
FindEnvFileStepDefaultAtRoot ==
    /\ lpc = "loop"
    /\ LET envPath == Join(dir, ".env")
           parent == Dirname(dir)
       IN IF EnvFileExistsIn(dir) \/ parent = dir
          THEN /\ located' = Some(envPath)
               /\ lpc' = "done"
               /\ dir' = dir
          ELSE /\ dir' = parent
               /\ lpc' = "loop"
               /\ located' = located
    /\ UNCHANGED <<pc, credentials, options, envFile, processEnv, result,
                   cwd, envDirs>>

\* One iteration of while (true).
FindEnvFileStep ==
    /\ lpc = "loop"
    /\ LET envPath == Join(dir, ".env")
           parent == Dirname(dir)
       IN IF EnvFileExistsIn(dir)
          THEN /\ located' = Some(envPath)
               /\ lpc' = "done"
               /\ dir' = dir
          ELSE IF parent = dir
               THEN /\ located' = Some(Join(cwd, ".env"))
                    /\ lpc' = "done"
                    /\ dir' = dir
               ELSE /\ dir' = parent
                    /\ lpc' = "loop"
                    /\ located' = located
    /\ UNCHANGED <<pc, credentials, options, envFile, processEnv, result,
                   cwd, envDirs>>

LocateNext ==
    \/ FindEnvFileEnter
    \/ FindEnvFileStep

\* findEnvFile is synchronous code: once called it runs until it returns.
SpecLocate == LocateInit /\ [][LocateNext]_vars /\ WF_vars(LocateNext)

(***************************************************************************)
(* Properties                                                              *)
(***************************************************************************)

\* The registry's definition of the key under the service, read off the table.
Defined(serviceId, key) ==
    \E i \in 1..Len(registry.services) :
        /\ registry.services[i].id = serviceId
        /\ \E j \in 1..Len(registry.services[i].credentials) :
            registry.services[i].credentials[j].key = key

Registered(key) == \E serviceId \in ServiceIds : Defined(serviceId, key)

\* The required keys of the service, read off the table.
RequiredKeys(serviceId) ==
    {key \in Keys :
        \E i \in 1..Len(registry.services) :
            /\ registry.services[i].id = serviceId
            /\ \E j \in 1..Len(registry.services[i].credentials) :
                /\ registry.services[i].credentials[j].key = key
                /\ registry.services[i].credentials[j].required}

Absent(key) == key \notin DOMAIN credentials /\ key \notin DOMAIN processEnv

\* C1: for every key present in the in-memory map, whatever its value, get
\* returns the map's value and never the process environment's.
C1_MapTakesPrecedence ==
    (result.op = "get" /\ result.key \in DOMAIN credentials)
        => /\ result.outcome.kind = "return"
           /\ result.outcome.value = credentials[result.key]

\* C2: right after set(k, v), get(k) returns v, whatever the file or the
\* process environment hold for k.
C2_SetThenGet ==
    result.op = "set"
        => LET got == get(this, result.key)
           IN got.kind = "return" /\ got.value = result.value

\* C3: for a key absent from both the map and the process environment, get
\* raises CredentialNotFound when throwOnMissing is true and returns the
\* empty string when it is false, whatever validate is and whether or not
\* the key is registered.
C3_AbsentKey ==
    (result.op = "get" /\ Absent(result.key))
        => IF options.throwOnMissing
           THEN /\ result.outcome.kind = "throw"
                /\ result.outcome.error = "CredentialNotFound"
           ELSE /\ result.outcome.kind = "return"
                /\ result.outcome.value = <<>>

C3_Witness ==
    /\ result.op = "get"
    /\ Absent(result.key)
    /\ ~Registered(result.key)
    /\ ~options.validate
    /\ options.throwOnMissing
    /\ result.outcome.kind = "throw"

ReportedInvalid(key) ==
    LET value == Lookup(this, key)
        owner == findServiceByCredential(key)
    IN /\ ~Falsy(value)
       /\ owner # None
       /\ ~validateCredential(owner[1], key, value[1]).valid

\* C5: a format-validation failure never changes the outcome of get: with
\* validate true and with validate false get returns the same value or
\* raises the same error, never an error about the format; the only
\* difference is the warning, written when validate is true and the
\* validator reports the value invalid.
C5_ValidationNeverFatal ==
    pc = "ready"
        => \A key \in Keys :
            LET on == get([this EXCEPT !.options.validate = TRUE], key)
                off == get([this EXCEPT !.options.validate = FALSE], key)
            IN /\ on.kind = off.kind
               /\ on.kind = "return" => on.value = off.value
               /\ on.kind = "throw"
                    => /\ on.error = "CredentialNotFound"
                       /\ off.error = "CredentialNotFound"
                       /\ Falsy(Lookup(this, key))
               /\ off.warnings = <<>>
               /\ on.warnings # <<>> <=> ReportedInvalid(key)

C5_Witness ==
    /\ result.op = "get"
    /\ options.validate
    /\ ReportedInvalid(result.key)
    /\ result.outcome.kind = "return"
    /\ result.outcome.value = Lookup(this, result.key)[1]
    /\ result.outcome.warnings # <<>>

\* The definitions of the key in the registry, in registry order.
RECURSIVE DefinitionsFrom(_, _)
DefinitionsFrom(i, key) ==
    IF i > Len(registry.services)
    THEN <<>>
    ELSE SelectSeq(registry.services[i].credentials, LAMBDA c : c.key = key)
            \o DefinitionsFrom(i + 1, key)

Definitions(key) == DefinitionsFrom(1, key)

\* C6: when get raises CredentialNotFound and a service owns the key, the
\* message carries the key with the credential's setup URL and its setup
\* steps in registry order, numbered from 1; when no service owns the key
\* the message names only the key.
C6_NotFoundMessage ==
    (result.op = "get" /\ result.outcome.kind = "throw")
        => LET message == result.outcome.message
               defs == Definitions(result.key)
           IN /\ result.outcome.error = "CredentialNotFound"
              /\ message.key = result.key
              /\ IF defs = <<>>
                 THEN message.url = None /\ message.steps = None
                 ELSE /\ message.url = defs[1].setupUrl
                      /\ IF defs[1].setupSteps = None
                         THEN message.steps = None
                         ELSE /\ message.steps # None
                              /\ Len(message.steps[1]) = Len(defs[1].setupSteps[1])
                              /\ \A n \in 1..Len(message.steps[1]) :
                                    message.steps[1][n] = <<n, defs[1].setupSteps[1][n]>>

C6_Witness ==
    /\ result.op = "get"
    /\ result.outcome.kind = "throw"
    /\ result.key = PORKBUN_API_KEY
    /\ result.outcome.message.url # None
    /\ Len(result.outcome.message.steps[1]) = 2

\* The elements of a sequence.
Range(seq) == {seq[i] : i \in 1..Len(seq)}

\* C7: validateService never raises and never validates a format; missing
\* is exactly the required keys of the service that are in neither the map
\* nor the process environment, and valid is true iff missing is empty.
C7_ValidateService ==
    result.op = "validateService"
        => /\ result.outcome.kind = "return"
           /\ result.outcome.warnings = <<>>
           /\ Range(result.outcome.value.missing)
                = {key \in RequiredKeys(result.serviceId) : Absent(key)}
           /\ Len(result.outcome.value.missing)
                = Cardinality(Range(result.outcome.value.missing))
           /\ result.outcome.value.valid <=> result.outcome.value.missing = <<>>

C7_Witness ==
    /\ result.op = "validateService"
    /\ result.serviceId = "porkbun"
    /\ Absent(PORKBUN_SECRET_KEY)
    /\ PORKBUN_API_KEY \in DOMAIN credentials
    /\ credentials[PORKBUN_API_KEY] = <<>>
    /\ result.outcome.value = [valid |-> FALSE, missing |-> <<PORKBUN_SECRET_KEY>>]

C9_ConstructionNeverFails ==
    (result.op = "new" /\ (~envFile.exists \/ ~envFile.readable))
        => /\ pc = "ready"
           /\ credentials = EmptyMap
           /\ \A key \in DOMAIN processEnv :
                processEnv[key] # <<>>
                    => /\ get(this, key).kind = "return"
                       /\ get(this, key).value = processEnv[key]

QuoteChars == {"\"", "'"}

\* The value the credential file's line KEY=raw stands for: the trimmed raw
\* text, without its outer quotes when it is wrapped in a matching pair.
QuotedValue(raw) ==
    LET t == Trim(raw)
    IN IF Len(t) >= 2 /\ t[1] \in QuoteChars /\ t[Len(t)] = t[1]
       THEN SubSeq(t, 2, Len(t) - 1)
       ELSE t

\* C10: for every line KEY=raw of the file the parsed value is raw without
\* its outer quotes exactly when the trimmed raw value is wrapped in a
\* matching pair of quote characters (an opening and a distinct closing
\* one), and the trimmed raw text unchanged otherwise, a lone quote
\* character included; only one layer is stripped.
C10_QuoteStripping ==
    LET line == Trim(envFile.content)
        eq == IndexOf(line, "=")
        key == Trim(SubSeq(line, 1, eq))
        raw == SubSeq(line, eq + 2, Len(line))
    IN (result.op = "new" /\ pc = "ready" /\ line # <<>> /\ eq # -1 /\ line[1] # "#"
            /\ "\n" \notin Range(envFile.content))
        => /\ key \in DOMAIN credentials
           /\ credentials[key] = QuotedValue(raw)

\* The ancestors of d, d included.
RECURSIVE Ancestors(_)
Ancestors(d) == IF d = Root THEN {Root} ELSE {d} \cup Ancestors(Dirname(d))

\* The ancestors of the working directory that contain a .env file.
EnvAncestors == {d \in Ancestors(cwd) : d \in envDirs}

\* C11, the iterations: an iteration of the loop either returns or moves
\* dir exactly one level toward the root.
C11_StepsTowardRoot ==
    [][lpc = "loop" => (lpc' = "done" \/ (lpc' = "loop" /\ Len(dir') = Len(dir) - 1
                                            /\ dir' = SubSeq(dir, 1, Len(dir') )))]_vars

\* C11, the result: with no .env in any ancestor of the working directory
\* (inclusive) the path returned is <working directory>/.env; otherwise it
\* is the .env of the nearest (deepest) ancestor that has one.
C11_Returned ==
    lpc = "done"
        => IF EnvAncestors = {}
           THEN located = Some(Append(cwd, ".env"))
           ELSE \E d \in EnvAncestors :
                    /\ \A e \in EnvAncestors : Len(e) <= Len(d)
                    /\ located = Some(Append(d, ".env"))

\* C11: findEnvFile terminates from every working directory, each iteration
\* returning or moving one level toward the root, and it returns the .env
\* of the nearest ancestor (inclusive) that has one, or
\* <working directory>/.env when none has.
C11_LocatorTerminates ==
    /\ <>(lpc = "done")
    /\ C11_StepsTowardRoot
    /\ [](C11_Returned)

C11_Witness ==
    /\ lpc = "done"
    /\ Len(cwd) = MaxDepth
    /\ EnvAncestors = {}
    /\ envDirs # {}
    /\ located = Some(Append(cwd, ".env"))

ReadOps == {"get", "getFor", "has", "getServiceCredentials", "validateService"}

\* The contents of the file as the constructor parses them.
FileContentsParsed ==
    IF envFile.exists THEN ParseLines(EmptyMap, Split(envFile.content)) ELSE EmptyMap

\* C12: the map is the file contents parsed at construction, overridden by
\* the set calls made since: construction leaves the parsed file in the
\* map; afterwards a step changes the map only if it is set(k, v), and then
\* only the entry for k, which becomes v; get, getFor, has,
\* getServiceCredentials and validateService, returning or raising, and a
\* change of the file or of the process environment leave the map as it is.
C12_MapFrame ==
    [][/\ (pc = "start" /\ pc' = "ready") => credentials' = FileContentsParsed
       /\ pc = "ready"
            => /\ \/ credentials' = credentials
                  \/ /\ result'.op = "set"
                     /\ DOMAIN credentials' = DOMAIN credentials \cup {result'.key}
                     /\ credentials'[result'.key] = result'.value
                     /\ \A k \in DOMAIN credentials \ {result'.key} :
                            credentials'[k] = credentials[k]
               /\ (result'.op \in ReadOps \/ envFile' # envFile \/ processEnv' # processEnv)
                    => credentials' = credentials]_vars

\* The file was deleted after a construction that loaded N="z' from it, and
\* set has since been called for another key.
C12_Witness ==
    /\ pc = "ready"
    /\ ~envFile.exists
    /\ NOT_A_REAL_KEY \in DOMAIN credentials
    /\ credentials[NOT_A_REAL_KEY] = <<"\"", "z", "'">>
    /\ result.op = "set"
    /\ result.key = PORKBUN_API_KEY
    /\ credentials[PORKBUN_API_KEY] = result.value

\* C13: the pre-flight check is sound under throwOnMissing: when has(key)
\* is true get(key) does not raise CredentialNotFound, and when
\* validateService(serviceId) returns valid = true neither get for a
\* required key of the service nor getServiceCredentials(serviceId) raises.
C13_PreflightSound ==
    (pc = "ready" /\ options.throwOnMissing)
        => /\ \A key \in Keys : has(this, key) => get(this, key).kind # "throw"
           /\ \A serviceId \in ServiceIds :
                validateService(this, serviceId).value.valid
                    => /\ \A i \in 1..Len(getRequiredCredentials(serviceId)) :
                            get(this, getRequiredCredentials(serviceId)[i]).kind # "throw"
                       /\ getServiceCredentials(this, serviceId).kind # "throw"

====
